---- MODULE Spec2Model ----
(***************************************************************************)
(* A model of Templates/Cpp-Templates/PerfTimer.h: the PerfTimer class,    *)
(* its start/stop cycle, its statistics report and its csv export; and of  *)
(* Templates/Cpp-Templates/cppArgParser.h: the InputParser class.          *)
(*                                                                         *)
(* Durations are counts of nanosecond ticks.  A C++ double is modelled as  *)
(* an exact real (see Real below); IEEE rounding of the arithmetic is not  *)
(* modelled, the six significant digits of operator<< are (FormatDouble).  *)
(***************************************************************************)
EXTENDS Integers, Sequences, FiniteSets, TLC

\* ------------------------------------------------------------------ bounds
\* The clock is not advanced beyond MaxNow ticks.
MaxNow == 1100
\* stopTimer is not called once the vector holds MaxSamples samples.
MaxSamples == 3
\* The amounts of time that may pass between two calls.
Deltas == {400, 700}
\* The timer names tried.
Names == {"loop"}
\* What a read through an invalid iterator or index may yield (a double).
Garbage == {0, 4200}

VARIABLES
    _name,        \* PerfTimer::_name
    _startTime,   \* PerfTimer::_startTime, in ticks since the clock's epoch
    _timeDiff,    \* PerfTimer::_timeDiff, a sequence of integral doubles
    _activeTimer, \* PerfTimer::_activeTimer
    now,          \* std::chrono::high_resolution_clock::now()
    crashed,      \* the process was ended by an invalid read
    file,         \* the lines of the file at filePath
    cout,         \* what the last call wrote to std::cout
    cerr,         \* what the last call wrote to std::cerr
    op,           \* history: the last step taken
    raised,       \* history: the exception the last call left with
    opened,       \* history: whether the last saveTimingData opened its file
    lastCall,     \* history: the most recent of startTimer / stopTimer
    firstStart,   \* history: the clock at the first startTimer since the last stopTimer
    pairs,        \* history: stopTimer calls that followed a startTimer
    unmatched,    \* history: stopTimer calls that followed no startTimer
    argTime,      \* _converter's in/out argument time
    argUnit,      \* _converter's out argument unit ("" before the call)
    argIn,        \* history: argTime as it was passed in
    argv,         \* the argv an InputParser was built from (argc is its length)
    tokens,       \* InputParser::tokens
    option,       \* the option argument of the last InputParser call
    returned      \* what the last InputParser call returned or threw

timerVars == <<_name, _startTime, _timeDiff, _activeTimer>>
histVars == <<op, raised, opened, lastCall, firstStart, pairs, unmatched>>
argVars == <<argTime, argUnit, argIn>>
parserVars == <<argv, tokens, option, returned>>
vars == <<_name, _startTime, _timeDiff, _activeTimer, now, crashed, file, cout,
          cerr, op, raised, opened, lastCall, firstStart, pairs, unmatched,
          argTime, argUnit, argIn, argv, tokens, option, returned>>

\* ------------------------------------------------------------ double values
\* A double is the exact real  (s * 10^9 + x) * 10^(-e10) / per,  where x is
\* num/den, or its square root when root holds; den = 0 is NaN.  The form
\* keeps every comparison of _converter inside 32-bit integer arithmetic.
Real(n, d) == [s |-> 0, num |-> n, den |-> d, root |-> FALSE, e10 |-> 0, per |-> 1]

Whole(n) == Real(n, 1)

NaN == Real(0, 0)

IsNaN(x) == x.den = 0

Abs(n) == IF n < 0 THEN -n ELSE n

RECURSIVE GCD(_, _)
GCD(a, b) == IF b = 0 THEN a ELSE GCD(b, a % b)

\* a / b on doubles holding the integers a and b; 0.0 / 0 is NaN (a divisor of
\* 0 is the size of an empty vector, and the dividend is then 0).
Divide(a, b) ==
    IF b = 0 THEN NaN
    ELSE LET g == GCD(Abs(a), b) IN Real(a \div g, b \div g)

\* x / n for a double x (a ratio) and a size n.
Over(x, n) == IF IsNaN(x) THEN NaN ELSE Divide(x.num, x.den * n)

\* x - y, x * y and x + y on doubles that are ratios.
Minus(x, y) ==
    IF IsNaN(x) \/ IsNaN(y) THEN NaN
    ELSE Divide(x.num * y.den - y.num * x.den, x.den * y.den)

Product(x, y) ==
    IF IsNaN(x) \/ IsNaN(y) THEN NaN
    ELSE Divide(x.num * y.num, x.den * y.den)

Plus(x, y) ==
    IF IsNaN(x) \/ IsNaN(y) THEN NaN
    ELSE Divide(x.num * y.den + y.num * x.den, x.den * y.den)

\* The largest r in lo..hi with r * r <= n (lo * lo <= n is given).
RECURSIVE IsqrtIn(_, _, _)
IsqrtIn(n, lo, hi) ==
    IF lo >= hi THEN lo
    ELSE LET mid == (lo + hi + 1) \div 2
         IN  IF mid * mid <= n THEN IsqrtIn(n, mid, hi) ELSE IsqrtIn(n, lo, mid - 1)

Isqrt(n) == IsqrtIn(n, 0, IF n < 46340 THEN n ELSE 46340)

\* std::sqrt of a ratio: a ratio again when it is one, else kept as a root.
Sqrt(x) ==
    IF IsNaN(x) THEN NaN
    ELSE LET rn == Isqrt(x.num)
             rd == Isqrt(x.den)
         IN  IF rn * rn = x.num /\ rd * rd = x.den
             THEN Real(rn, rd)
             ELSE [x EXCEPT !.root = TRUE]

CeilDiv(a, b) == (a + b - 1) \div b

\* x <= limit.s * 10^9 + limit.n for an unscaled double x; false for NaN.
Leq(x, limit) ==
    /\ ~IsNaN(x)
    /\ \/ x.s < limit.s
       \/ /\ x.s = limit.s
          /\ IF x.root
             THEN IF limit.n = 0 THEN x.num = 0
                  ELSE CeilDiv(x.num, x.den * limit.n) <= limit.n
             ELSE x.num <= limit.n * x.den

\* x * 10^(-e) / p
Scaled(x, e, p) == IF IsNaN(x) THEN x ELSE [x EXCEPT !.e10 = e, !.per = p]

\* ---------------------------------------------------------- unit selection
\* The literals that _converter compares against.
LimitNs == [s |-> 0, n |-> 1000]
LimitUs == [s |-> 0, n |-> 1000000]
LimitMs == [s |-> 1, n |-> 0]
LimitS == [s |-> 600, n |-> 0]
LimitMins == [s |-> 10800, n |-> 0]

\* x < limit.s * 10^9 + limit.n
Below(x, limit) ==
    /\ Leq(x, limit)
    /\ ~(x.s = limit.s /\ ~x.root /\ x.num = limit.n * x.den)

\* _converter with < for <=: a duration equal to a limit moves up a tier.
_converterExclusive(time) ==
    IF Below(time, LimitNs) THEN [time |-> time, unit |-> "ns"]
    ELSE IF Below(time, LimitUs) THEN [time |-> Scaled(time, 3, 1), unit |-> "us"]
    ELSE IF Below(time, LimitMs) THEN [time |-> Scaled(time, 6, 1), unit |-> "ms"]
    ELSE IF Below(time, LimitS) THEN [time |-> Scaled(time, 9, 1), unit |-> "s"]
    ELSE IF Below(time, LimitMins) THEN [time |-> Scaled(time, 9, 60), unit |-> "mins"]
    ELSE [time |-> Scaled(time, 9, 3600), unit |-> "hrs"]

\* PerfTimer::_converter: the in/out parameter time and the out parameter unit.
_converter(time) ==
    IF Leq(time, LimitNs) THEN [time |-> time, unit |-> "ns"]
    ELSE IF Leq(time, LimitUs) THEN [time |-> Scaled(time, 3, 1), unit |-> "us"]
    ELSE IF Leq(time, LimitMs) THEN [time |-> Scaled(time, 6, 1), unit |-> "ms"]
    ELSE IF Leq(time, LimitS) THEN [time |-> Scaled(time, 9, 1), unit |-> "s"]
    ELSE IF Leq(time, LimitMins) THEN [time |-> Scaled(time, 9, 60), unit |-> "mins"]
    ELSE [time |-> Scaled(time, 9, 3600), unit |-> "hrs"]

\* ------------------------------------------------------------- operator<<
RECURSIVE Digits(_)
Digits(v) == IF v < 10 THEN 1 ELSE 1 + Digits(v \div 10)

\* std::ostream << double at the default precision of 6 significant digits
\* (%g), for a double v holding a non-negative integer: fixed notation below
\* 10^6, else a 6-digit mantissa, rounded to nearest (ties to even), and an
\* exponent; the text stands for mant * 10^(exp - 5).
FormatDouble(v) ==
    IF v < 1000000 THEN [fmt |-> "fixed", mant |-> v, exp |-> 0]
    ELSE LET e == Digits(v) - 1
             u == 10 ^ (e - 5)
             q == v \div u
             r == v % u
             m == IF 2 * r > u \/ (2 * r = u /\ q % 2 = 1) THEN q + 1 ELSE q
         IN  IF m = 1000000
             THEN [fmt |-> "sci", mant |-> 100000, exp |-> e + 1]
             ELSE [fmt |-> "sci", mant |-> m, exp |-> e]

\* ---------------------------------------------------------------- the timer
\* PerfTimer::PerfTimer: _activeTimer(false), _name(name); _timeDiff is an empty
\* vector and _startTime a default-constructed time_point, the clock's epoch.
Init ==
    /\ _name \in Names
    /\ _startTime = 0
    /\ _timeDiff = <<>>
    /\ _activeTimer = FALSE
    /\ now = 0
    /\ crashed = FALSE
    /\ file = <<>>
    /\ cout = <<>>
    /\ cerr = <<>>
    /\ op = "construct"
    /\ raised = "none"
    /\ opened = FALSE
    /\ lastCall = "none"
    /\ firstStart = 0
    /\ pairs = 0
    /\ unmatched = 0
    /\ argTime = Whole(0)
    /\ argUnit = ""
    /\ argIn = Whole(0)
    /\ argv = <<>>
    /\ tokens = <<>>
    /\ option = ""
    /\ returned = [kind |-> "none"]

\* Time passes between two calls.
Tick ==
    /\ ~crashed
    /\ \E d \in Deltas :
        /\ now + d <= MaxNow
        /\ now' = now + d
    /\ op' = "tick"
    /\ UNCHANGED <<timerVars, crashed, file, cout, cerr, raised, opened,
                   lastCall, firstStart, pairs, unmatched, argVars, parserVars>>

\* PerfTimer::startTimer
startTimer ==
    /\ ~crashed
    /\ IF _activeTimer
       THEN /\ cout' = <<[kind |-> "active", name |-> _name]>>
            /\ UNCHANGED _startTime
       ELSE /\ _startTime' = now
            /\ cout' = <<>>
    /\ cerr' = <<>>
    /\ op' = "startTimer"
    /\ raised' = "none"
    /\ lastCall' = "start"
    /\ firstStart' = IF lastCall = "start" THEN firstStart ELSE now
    /\ UNCHANGED <<_name, _timeDiff, _activeTimer, now, crashed, file, opened,
                   pairs, unmatched, argVars, parserVars>>

\* stopTimer with the sample inserted at the front of the vector.
stopTimerAtFront ==
    /\ ~crashed
    /\ Len(_timeDiff) < MaxSamples
    /\ LET diff == now - _startTime
       IN  _timeDiff' = <<diff>> \o _timeDiff
    /\ _activeTimer' = FALSE
    /\ cout' = <<>>
    /\ cerr' = <<>>
    /\ op' = "stopTimer"
    /\ raised' = "none"
    /\ lastCall' = "stop"
    /\ pairs' = IF lastCall = "start" THEN pairs + 1 ELSE pairs
    /\ unmatched' = IF lastCall = "start" THEN unmatched ELSE unmatched + 1
    /\ UNCHANGED <<_name, _startTime, now, crashed, file, opened, firstStart,
                   argVars, parserVars>>

\* PerfTimer::stopTimer
stopTimer ==
    /\ ~crashed
    /\ Len(_timeDiff) < MaxSamples
    /\ LET diff == now - _startTime
       IN  _timeDiff' = Append(_timeDiff, diff)
    /\ _activeTimer' = FALSE
    /\ cout' = <<>>
    /\ cerr' = <<>>
    /\ op' = "stopTimer"
    /\ raised' = "none"
    /\ lastCall' = "stop"
    /\ pairs' = IF lastCall = "start" THEN pairs + 1 ELSE pairs
    /\ unmatched' = IF lastCall = "start" THEN unmatched ELSE unmatched + 1
    /\ UNCHANGED <<_name, _startTime, now, crashed, file, opened, firstStart,
                   argVars, parserVars>>

\* ------------------------------------------------------------ statistics
\* std::accumulate over doubles that hold integers.
RECURSIVE Accumulate(_, _)
Accumulate(seq, init) ==
    IF seq = <<>> THEN init ELSE Accumulate(Tail(seq), init + Head(seq))

\* std::inner_product
RECURSIVE InnerProduct(_, _, _)
InnerProduct(a, b, init) ==
    IF a = <<>> THEN init
    ELSE InnerProduct(Tail(a), Tail(b), Plus(init, Product(Head(a), Head(b))))

\* _standardDeviation dividing by size - 1 (the sample standard deviation).
_standardDeviationSample ==
    LET size == Len(_timeDiff)
        sum == Accumulate(_timeDiff, 0)
        mean == Divide(sum, size)
        diff == [i \in 1..size |-> Minus(Whole(_timeDiff[i]), mean)]
        sq_sum == InnerProduct(diff, diff, Whole(0))
    IN  Sqrt(Over(sq_sum, IF size = 0 THEN 0 ELSE size - 1))

\* PerfTimer::_standardDeviation
_standardDeviation ==
    LET size == Len(_timeDiff)
        sum == Accumulate(_timeDiff, 0)
        mean == Divide(sum, size)
        diff == [i \in 1..size |-> Minus(Whole(_timeDiff[i]), mean)]
        sq_sum == InnerProduct(diff, diff, Whole(0))
    IN  Sqrt(Over(sq_sum, size))

Range(seq) == {seq[i] : i \in 1..Len(seq)}

\* What dereferencing the iterators of std::minmax_element can yield: on an
\* empty vector both are end(), and the read is invalid.
MinMaxReads ==
    IF _timeDiff = <<>>
    THEN {[crash |-> TRUE, first |-> 0, second |-> 0]}
         \cup {[crash |-> FALSE, first |-> a, second |-> b] : a, b \in Garbage}
    ELSE {[crash |-> FALSE,
           first |-> CHOOSE x \in Range(_timeDiff) : \A y \in Range(_timeDiff) : x <= y,
           second |-> CHOOSE x \in Range(_timeDiff) : \A y \in Range(_timeDiff) : y <= x]}

\* What _timeDiff[0] can yield: invalid on an empty vector.
IndexZeroReads ==
    IF _timeDiff = <<>>
    THEN {[crash |-> TRUE, value |-> 0]}
         \cup {[crash |-> FALSE, value |-> a] : a \in Garbage}
    ELSE {[crash |-> FALSE, value |-> _timeDiff[1]]}

\* PerfTimer::reportStats: the two lines written to outStream, given what the
\* min/max iterators read.
ReportLines(minMax) ==
    LET totalTime == Whole(Accumulate(_timeDiff, 0))
        avgTime == Divide(Accumulate(_timeDiff, 0), Len(_timeDiff))
        stdDev == _standardDeviation
        minTime == Whole(minMax.first)
        maxTime == Whole(minMax.second)
    IN  << [kind |-> "name", name |-> _name],
           [kind |-> "stats",
            trials |-> Len(_timeDiff),
            total |-> _converter(totalTime),
            average |-> _converter(avgTime),
            deviation |-> _converter(stdDev),
            fastest |-> _converter(minTime),
            slowest |-> _converter(maxTime)] >>

\* reportStats finding the extrema by sorting _timeDiff in place.
reportStatsSorting ==
    /\ ~crashed
    /\ \E minMax \in MinMaxReads :
        /\ crashed' = minMax.crash
        /\ cout' = IF minMax.crash THEN <<>> ELSE ReportLines(minMax)
    /\ _timeDiff' = SortSeq(_timeDiff, LAMBDA a, b : a < b)
    /\ cerr' = <<>>
    /\ op' = "reportStats"
    /\ raised' = "none"
    /\ UNCHANGED <<_name, _startTime, _activeTimer, now, file, opened, lastCall,
                   firstStart, pairs, unmatched, argVars, parserVars>>

\* PerfTimer::reportStats on its default stream, std::cout.
reportStats ==
    /\ ~crashed
    /\ \E minMax \in MinMaxReads :
        /\ crashed' = minMax.crash
        /\ cout' = IF minMax.crash THEN <<>> ELSE ReportLines(minMax)
    /\ cerr' = <<>>
    /\ op' = "reportStats"
    /\ raised' = "none"
    /\ UNCHANGED <<timerVars, now, file, opened, lastCall, firstStart, pairs,
                   unmatched, argVars, parserVars>>

\* The third line of the file: saveFile << _timeDiff[0], then "," and
\* _timeDiff[i] for i = 1 .. size - 1.
SampleLine(first) ==
    [kind |-> "samples",
     fields |-> <<FormatDouble(first)>>
                \o [i \in 1..(Len(_timeDiff) - 1) |-> FormatDouble(_timeDiff[i + 1])]]

\* PerfTimer::saveTimingData; canOpen is whether filePath can be opened.
saveTimingData ==
    /\ ~crashed
    /\ \E canOpen \in BOOLEAN, minMax \in MinMaxReads, zero \in IndexZeroReads :
        LET header == IF minMax.crash THEN <<>> ELSE ReportLines(minMax)
            line == IF minMax.crash \/ zero.crash THEN <<>>
                    ELSE <<SampleLine(zero.value)>>
        IN  /\ opened' = canOpen
            /\ cout' = IF canOpen THEN <<[kind |-> "open"]>> ELSE <<>>
            /\ cerr' = IF canOpen THEN <<>> ELSE <<[kind |-> "openFailed"]>>
            /\ file' = IF canOpen THEN header \o line ELSE file
            /\ crashed' = (minMax.crash \/ zero.crash)
    /\ op' = "saveTimingData"
    /\ raised' = "none"
    /\ UNCHANGED <<timerVars, now, lastCall, firstStart, pairs, unmatched, argVars, parserVars>>

Next ==
    \/ Tick
    \/ startTimer
    \/ stopTimer
    \/ reportStats
    \/ saveTimingData

Spec == Init /\ [][Next]_vars

\* ----------------------------------------------- timers that hold samples
\* The longest sample sequence a timer is given at the start.
MaxLen == 3
\* Sample values of a few hundred ticks, and of more than six digits.
SmallSamples == {100, 200, 300, 1000}
LargeSamples == {1234567, 1234570, 1235000}

SampleSeqs ==
    UNION {[1..n -> SmallSamples] : n \in 0..MaxLen}
    \cup UNION {[1..n -> LargeSamples] : n \in 1..MaxLen}

\* A timer after Len(_timeDiff) start/stop pairs run back to back from the
\* clock's epoch, the pairs having measured the samples of _timeDiff.
InitData ==
    /\ _name \in Names
    /\ _timeDiff \in SampleSeqs
    /\ now = Accumulate(_timeDiff, 0)
    /\ _startTime = IF _timeDiff = <<>> THEN 0 ELSE now - _timeDiff[Len(_timeDiff)]
    /\ _activeTimer = FALSE
    /\ crashed = FALSE
    /\ file = <<>>
    /\ cout = <<>>
    /\ cerr = <<>>
    /\ op = IF _timeDiff = <<>> THEN "construct" ELSE "stopTimer"
    /\ raised = "none"
    /\ opened = FALSE
    /\ lastCall = IF _timeDiff = <<>> THEN "none" ELSE "stop"
    /\ firstStart = _startTime
    /\ pairs = Len(_timeDiff)
    /\ unmatched = 0
    /\ argTime = Whole(0)
    /\ argUnit = ""
    /\ argIn = Whole(0)
    /\ argv = <<>>
    /\ tokens = <<>>
    /\ option = ""
    /\ returned = [kind |-> "none"]

NextData ==
    \/ reportStats
    \/ saveTimingData

SpecData == InitData /\ [][NextData]_vars

\* ------------------------------------------------- calls of _converter
\* The durations passed to _converter: whole and half ticks around each limit.
ConvSeconds == {0, 1, 599, 600, 601, 10799, 10800, 10801}
ConvNanos == {0, 1, 999, 1000, 1001, 2000, 2001, 999999, 1000000, 1000001, 999999999}
ConvInputs ==
    {[s |-> a, num |-> b, den |-> d, root |-> FALSE, e10 |-> 0, per |-> 1] :
        a \in ConvSeconds, b \in ConvNanos, d \in {1, 2}}

InitConv ==
    /\ _name \in Names
    /\ _startTime = 0
    /\ _timeDiff = <<>>
    /\ _activeTimer = FALSE
    /\ now = 0
    /\ crashed = FALSE
    /\ file = <<>>
    /\ cout = <<>>
    /\ cerr = <<>>
    /\ op = "construct"
    /\ raised = "none"
    /\ opened = FALSE
    /\ lastCall = "none"
    /\ firstStart = 0
    /\ pairs = 0
    /\ unmatched = 0
    /\ argTime \in ConvInputs
    /\ argUnit = ""
    /\ argIn = argTime
    /\ argv = <<>>
    /\ tokens = <<>>
    /\ option = ""
    /\ returned = [kind |-> "none"]

\* One call _converter(time, unit).
convert ==
    /\ argUnit = ""
    /\ LET r == _converter(argTime)
       IN  /\ argTime' = r.time
           /\ argUnit' = r.unit
    /\ UNCHANGED <<timerVars, now, crashed, file, cout, cerr, histVars, argIn, parserVars>>

NextConv == convert

SpecConv == InitConv /\ [][NextConv]_vars

\* ------------------------------------------------------------ InputParser
\* The longest argv tried (argc, the program name included).
MaxArgc == 4
\* The strings of argv[0], of argv[1..] and of the option asked for.
Programs == {"prog", "-f"}
Words == {"-f", "-o", "x"}
Options == {"-f", "-o", "-h"}

Argvs == UNION {{<<p>> \o w : p \in Programs, w \in [1..n -> Words]} : n \in 0..(MaxArgc - 1)}

\* std::find over the last match instead of the first.
FindLast(seq, x) ==
    IF \E i \in 1..Len(seq) : seq[i] = x
    THEN CHOOSE i \in 1..Len(seq) : seq[i] = x /\ \A j \in (i + 1)..Len(seq) : seq[j] # x
    ELSE Len(seq) + 1

\* std::find(seq.begin(), seq.end(), x): the position of the first element
\* equal to x, or Len(seq) + 1 for seq.end().
RECURSIVE FindFrom(_, _, _)
FindFrom(seq, x, i) ==
    IF i > Len(seq) THEN i
    ELSE IF seq[i] = x THEN i ELSE FindFrom(seq, x, i + 1)

Find(seq, x) == FindFrom(seq, x, 1)

\* InputParser::InputParser: tokens after the loop for (i = 1; i < argc; ++i)
\* tokens.push_back(std::string(argv[i])); argv[i] is a[i + 1] here.
RECURSIVE PushFrom(_, _, _)
PushFrom(a, i, acc) ==
    IF i < Len(a) THEN PushFrom(a, i + 1, Append(acc, a[i + 1])) ELSE acc

InputParser(a) == PushFrom(a, 1, <<>>)

\* An InputParser just built from an argv.
InitArgs ==
    /\ _name \in Names
    /\ _startTime = 0
    /\ _timeDiff = <<>>
    /\ _activeTimer = FALSE
    /\ now = 0
    /\ crashed = FALSE
    /\ file = <<>>
    /\ cout = <<>>
    /\ cerr = <<>>
    /\ op = "construct"
    /\ raised = "none"
    /\ opened = FALSE
    /\ lastCall = "none"
    /\ firstStart = 0
    /\ pairs = 0
    /\ unmatched = 0
    /\ argTime = Whole(0)
    /\ argUnit = ""
    /\ argIn = Whole(0)
    /\ argv \in Argvs
    /\ tokens = InputParser(argv)
    /\ option = ""
    /\ returned = [kind |-> "none"]

\* InputParser::cmdOptionExists
cmdOptionExists ==
    /\ \E o \in Options :
        /\ option' = o
        /\ returned' = [kind |-> "bool", flag |-> (Find(tokens, o) # Len(tokens) + 1)]
    /\ op' = "cmdOptionExists"
    /\ raised' = "none"
    /\ UNCHANGED <<timerVars, now, crashed, file, cout, cerr, opened, lastCall,
                   firstStart, pairs, unmatched, argVars, argv, tokens>>

\* InputParser::getCmdOption
getCmdOption ==
    /\ \E o \in Options :
        /\ option' = o
        /\ IF ~(Find(tokens, o) # Len(tokens) + 1)
           THEN /\ raised' = "invalid_argument"
                /\ returned' = [kind |-> "thrown", what |-> "not found"]
           ELSE LET itr == Find(tokens, o)
                IN  IF itr # Len(tokens) + 1 /\ itr + 1 # Len(tokens) + 1
                    THEN /\ raised' = "none"
                         /\ returned' = [kind |-> "string", text |-> tokens[itr + 1]]
                    ELSE /\ raised' = "invalid_argument"
                         /\ returned' = [kind |-> "thrown", what |-> "empty argument"]
    /\ op' = "getCmdOption"
    /\ UNCHANGED <<timerVars, now, crashed, file, cout, cerr, opened, lastCall,
                   firstStart, pairs, unmatched, argVars, argv, tokens>>

NextArgs ==
    \/ cmdOptionExists
    \/ getCmdOption

SpecArgs == InitArgs /\ [][NextArgs]_vars

\* ------------------------------------------------------------------ claims
Last(seq) == seq[Len(seq)]

IsPrefix(a, b) == Len(a) <= Len(b) /\ SubSeq(b, 1, Len(a)) = a

HasStatsLine(lines) == \E i \in 1..Len(lines) : lines[i].kind = "stats"

\* C1: the armed flag is true exactly when the most recent of the startTimer
\* and stopTimer calls was a startTimer: false after construction, true from
\* a startTimer until the next stopTimer, false after stopTimer.
ArmedBetweenStartAndStop == _activeTimer <=> (lastCall = "start")

\* C2: a startTimer that follows a startTimer with no stopTimer in between
\* changes neither the start mark nor the samples nor the armed flag, and the
\* next stopTimer records the time since the first of those startTimer calls.
SecondStartIsNoOp ==
    [][ /\ (op' = "startTimer" /\ lastCall = "start")
            => UNCHANGED <<_startTime, _timeDiff, _activeTimer>>
        /\ (op' = "stopTimer" /\ lastCall = "start")
            => Last(_timeDiff') = now - firstStart ]_vars

\* C3: a stopTimer with no startTimer since construction or since the last
\* stopTimer fails with InvalidState and appends no sample.
StopWithoutStartFails ==
    [][ (op' = "stopTimer" /\ lastCall # "start")
            => (raised' = "InvalidState" /\ _timeDiff' = _timeDiff) ]_vars

EmptyReportFails ==
    (op \in {"reportStats", "saveTimingData"} /\ _timeDiff = <<>>)
        => /\ raised = "NoSamples"
           /\ ~crashed
           /\ ~HasStatsLine(cout)
           /\ (opened => ~HasStatsLine(file))

\* C6: when saveTimingData cannot open its file the call fails with IOError
\* and no success message is written (stated for a timer that holds samples,
\* each sample from a start/stop pair, where the call reads nothing invalid).
FailedOpenFails ==
    (op = "saveTimingData" /\ ~opened /\ _timeDiff # <<>> /\ unmatched = 0)
        => (raised = "IOError" /\ cout = <<>>)

\* C7: reportStats and saveTimingData leave the name, the start mark, the
\* samples and the armed flag as they were.
ReportsLeaveTimerAlone ==
    [][ op' \in {"reportStats", "saveTimingData"} => UNCHANGED timerVars ]_vars

\* C7 witness: an export between a startTimer and its stopTimer, on a timer
\* that holds two samples out of order.
ExportBetweenStartAndStop ==
    /\ op = "saveTimingData"
    /\ lastCall = "start"
    /\ Len(_timeDiff) = 2
    /\ _timeDiff[1] > _timeDiff[2]
    /\ Len(file) = 3

\* x > s * 10^9 + n, for a duration x that is a ratio.
Above(x, s, n) == x.s > s \/ (x.s = s /\ x.num > n * x.den)

\* The tier table of the claim: the unit, the power of ten and the divisor.
TierOf(x) ==
    IF ~Above(x, 0, 1000) THEN [unit |-> "ns", e10 |-> 0, per |-> 1]
    ELSE IF ~Above(x, 0, 1000000) THEN [unit |-> "us", e10 |-> 3, per |-> 1]
    ELSE IF ~Above(x, 1, 0) THEN [unit |-> "ms", e10 |-> 6, per |-> 1]
    ELSE IF ~Above(x, 600, 0) THEN [unit |-> "s", e10 |-> 9, per |-> 1]
    ELSE IF ~Above(x, 10800, 0) THEN [unit |-> "mins", e10 |-> 9, per |-> 60]
    ELSE [unit |-> "hrs", e10 |-> 9, per |-> 3600]

TierIndex(u) ==
    CASE u = "ns" -> 0 [] u = "us" -> 1 [] u = "ms" -> 2
      [] u = "s" -> 3 [] u = "mins" -> 4 [] u = "hrs" -> 5

ValueLeq(x, y) == x.s < y.s \/ (x.s = y.s /\ x.num * y.den <= y.num * x.den)

\* C8: _converter puts every duration in the tier of the table, the upper
\* limits inclusive, and scales it by that tier's factor and no other; 1000
\* ticks are ns and 1001 are microseconds; a longer duration never gets a
\* finer unit.
UnitSelectionTiers ==
    argUnit # "" =>
        /\ argUnit = TierOf(argIn).unit
        /\ argTime.e10 = TierOf(argIn).e10
        /\ argTime.per = TierOf(argIn).per
        /\ [argTime EXCEPT !.e10 = 0, !.per = 1] = argIn
        /\ argIn = Whole(1000) => argUnit = "ns" /\ argTime = argIn
        /\ argIn = Whole(1001) => argUnit = "us"
        /\ \A y \in ConvInputs :
            ValueLeq(argIn, y) => TierIndex(argUnit) <= TierIndex(_converter(y).unit)

\* C8 witness: _converter has been called with exactly 1000 ticks.
ConvertedThousand == argUnit # "" /\ argIn = Whole(1000)

\* The figure of a statistics line entry before its unit was chosen.
Unscaled(entry) == [entry.time EXCEPT !.e10 = 0, !.per = 1]

RECURSIVE SumOver(_, _)
SumOver(f, S) ==
    IF S = {} THEN 0
    ELSE LET i == CHOOSE j \in S : TRUE IN f[i] + SumOver(f, S \ {i})

\* The sum of the squares of n * x - total over the samples x: n^3 times the
\* population variance.
SquaredDeviations ==
    LET n == Len(_timeDiff)
        total == SumOver(_timeDiff, 1..n)
    IN  SumOver([i \in 1..n |-> (n * _timeDiff[i] - total) * (n * _timeDiff[i] - total)],
                1..n)

\* C9: on a timer that holds samples, reportStats reports the count, the sum,
\* the mean, the population standard deviation and the extrema of the whole
\* sequence, each scaled by its own unit selection; a single sample s gives
\* deviation 0 and s for the rest; <<100, 200, 300>> gives total 600, mean 200,
\* extrema 100 and 300, variance 20000/3.
StatsOverWholeSequence ==
    (op = "reportStats" /\ _timeDiff # <<>>) =>
        /\ Len(cout) = 2
        /\ cout[1] = [kind |-> "name", name |-> _name]
        /\ LET st == cout[2]
               n == Len(_timeDiff)
               total == SumOver(_timeDiff, 1..n)
               avg == Unscaled(st.average)
               dev == Unscaled(st.deviation)
           IN  /\ st.kind = "stats"
               /\ st.trials = n
               /\ Unscaled(st.total) = Whole(total)
               /\ ~avg.root /\ avg.s = 0 /\ avg.den > 0
               /\ avg.num * n = total * avg.den
               /\ dev.s = 0 /\ dev.den > 0
               /\ IF dev.root
                  THEN dev.num * (n * n * n) = SquaredDeviations * dev.den
                  ELSE dev.num * dev.num * (n * n * n)
                           = SquaredDeviations * dev.den * dev.den
               /\ \E i \in 1..n : Unscaled(st.fastest) = Whole(_timeDiff[i])
               /\ \E i \in 1..n : Unscaled(st.slowest) = Whole(_timeDiff[i])
               /\ \A i \in 1..n :
                    /\ Unscaled(st.fastest).num <= _timeDiff[i]
                    /\ Unscaled(st.slowest).num >= _timeDiff[i]
               /\ \A e \in {st.total, st.average, st.deviation, st.fastest, st.slowest} :
                    e = _converter(Unscaled(e))
               /\ n = 1 =>
                    /\ dev = Whole(0)
                    /\ \A e \in {st.total, st.average, st.fastest, st.slowest} :
                         Unscaled(e) = Whole(_timeDiff[1])
               /\ _timeDiff = <<100, 200, 300>> =>
                    /\ Unscaled(st.total) = Whole(600)
                    /\ avg = Whole(200)
                    /\ Unscaled(st.fastest) = Whole(100)
                    /\ Unscaled(st.slowest) = Whole(300)
                    /\ dev = [Real(20000, 3) EXCEPT !.root = TRUE]
                    /\ st.deviation.unit = "ns"

\* C9 witness: reportStats has reported on the samples 100, 200, 300.
ReportedHundreds ==
    /\ op = "reportStats"
    /\ _timeDiff = <<100, 200, 300>>
    /\ Len(cout) = 2

\* Reading a field of the third line back: the number its text stands for.
ParseDouble(f) ==
    IF f.fmt = "fixed" THEN f.mant ELSE f.mant * 10 ^ (f.exp - 5)

\* C10: on a timer that holds samples, saveTimingData writes the two lines of
\* reportStats and then one line of the raw samples in recording order, whose
\* fields parse back to exactly the sample sequence.
ExportRoundTrip ==
    (op = "saveTimingData" /\ opened /\ _timeDiff # <<>>) =>
        /\ Len(file) = 3
        /\ file[1].kind = "name"
        /\ file[2].kind = "stats"
        /\ file[3].kind = "samples"
        /\ Len(file[3].fields) = Len(_timeDiff)
        /\ \A i \in 1..Len(_timeDiff) :
             ParseDouble(file[3].fields[i]) = _timeDiff[i]

\* The positions of tokens that hold the string x.
Matches(x) == {i \in 1..Len(tokens) : tokens[i] = x}

\* C11: tokens is argv without the program name argv[0]; cmdOptionExists(X)
\* is true exactly when some token equals X; getCmdOption(X) returns the token
\* right after the first token equal to X, and throws std::invalid_argument
\* when no token equals X or the first one that does is the last token;
\* neither call changes tokens.
OptionLookup ==
    /\ tokens = SubSeq(argv, 2, Len(argv))
    /\ op = "cmdOptionExists" =>
        /\ returned.kind = "bool"
        /\ returned.flag <=> (Matches(option) # {})
        /\ raised = "none"
    /\ op = "getCmdOption" =>
        IF Matches(option) = {}
        THEN raised = "invalid_argument" /\ returned.kind = "thrown"
        ELSE LET first == CHOOSE i \in Matches(option) : \A j \in Matches(option) : i <= j
             IN  IF first = Len(tokens)
                 THEN raised = "invalid_argument" /\ returned.kind = "thrown"
                 ELSE /\ raised = "none"
                      /\ returned.kind = "string"
                      /\ returned.text = tokens[first + 1]

\* C11 witness: getCmdOption("-f") has returned the token after the first of
\* two "-f", the second being the last token, with argv[0] a "-f" as well.
ReturnedAfterFirstOfTwo ==
    /\ op = "getCmdOption"
    /\ option = "-f"
    /\ argv = <<"-f", "-f", "x", "-f">>
    /\ returned.kind = "string"
    /\ returned.text = "x"
====
